---------------------------- MODULE Spec2Model ----------------------------
(***************************************************************************)
(* Slice / SliceMut: zero-copy views over a fixed-capacity RingBuffer      *)
(* (src/src/ring_buffer/slice.rs).                                         *)
(*                                                                         *)
(* A view is a record [mut, range] over the one buffer of the model; a     *)
(* reference &A / &mut A is the physical slot it points at.  The buffer    *)
(* itself (origin, length, slots, index, set, get_unchecked, the iterator  *)
(* steps) lives in ring_buffer/mod.rs and iter.rs, which slice.rs only     *)
(* calls; those parts follow the buffer contract of the specification.     *)
(***************************************************************************)
EXTENDS Integers, Sequences, FiniteSets, Bags, TLC

VARIABLES buffer, views, last, iter

vars == <<buffer, views, last, iter>>

---------------------------------------------------------------------------
(* Bounds of the model *)

\* N: ChunkLength<A>, the type-level capacity of the buffer
Capacity == 5
\* longest buffer the view specifications start from
MaxLen == 2
\* most views alive at one time
MaxViews == 2
\* longest buffer an iterator walks
IterLen == 3
\* most iterators alive at one time
MaxIters == 1
\* width of usize, scaled down: indices are 0..2^UsizeBits-1
UsizeBits == 4

RECURSIVE Pow2(_)
Pow2(n) == IF n = 0 THEN 1 ELSE 2 * Pow2(n - 1)

UsizeModulus == Pow2(UsizeBits)
UsizeMax == UsizeModulus - 1

\* the element values written and compared: equality of elements is all the
\* views look at, and two values tell equal from different
Val == {1, 2}
\* content of a slot that is not live
Uninit == 0
Slots == 0..(Capacity - 1)

\* index arguments tried: the small ones and the largest word
Indices == (0..(MaxLen + 1)) \cup {UsizeMax}

Min(x, y) == IF x < y THEN x ELSE y

---------------------------------------------------------------------------
(* usize arithmetic *)

\* x + y leaves the word
AddOverflows(x, y) == x + y > UsizeMax

\* x + y as the machine computes it when overflow checks are off
WrappingAdd(x, y) == (x + y) % UsizeModulus

---------------------------------------------------------------------------
(* RingBuffer: storage contract *)

\* physical(i) = (origin + i) mod capacity
raw(buf, i) == (buf.origin + i) % Capacity

RingBuffer_len(buf) == buf.length

\* unchecked access: the reference to the slot of logical index i
RingBuffer_get_unchecked(buf, i) == raw(buf, i)

\* checked Index / IndexMut of the buffer: out of range is a panic
RingBuffer_index(buf, i) ==
    IF i >= RingBuffer_len(buf)
    THEN [tag |-> "Panic", ref |-> -1]
    ELSE [tag |-> "Ref", ref |-> raw(buf, i)]

\* set(i, value): replace and hand back the displaced value
RingBuffer_set(buf, i, value) ==
    IF i >= RingBuffer_len(buf)
    THEN [tag |-> "Panic", old |-> Uninit, buf |-> buf]
    ELSE [tag |-> "Ok", old |-> buf.slots[raw(buf, i)],
          buf |-> [buf EXCEPT !.slots[raw(buf, i)] = value]]

\* the buffer holding the logical sequence elems at origin o
MakeBuffer(o, elems) ==
    [origin |-> o, length |-> Len(elems),
     slots  |-> [p \in Slots |->
                   LET i == (p - o + Capacity) % Capacity
                   IN IF i < Len(elems) THEN elems[i + 1] ELSE Uninit]]

RECURSIVE SeqsUpTo(_, _)
SeqsUpTo(S, n) ==
    IF n = 0 THEN {<<>>}
    ELSE LET shorter == SeqsUpTo(S, n - 1)
         IN shorter \cup {Append(q, x) : q \in {r \in shorter : Len(r) = n - 1}, x \in S}

---------------------------------------------------------------------------
(* Slice and SliceMut: construction and length *)

Range(s, e) == [start |-> s, end |-> e]
MkSlice(r) == [mut |-> FALSE, range |-> r]
MkSliceMut(r) == [mut |-> TRUE, range |-> r]

Slice_len(v) == v.range.end - v.range.start
SliceMut_len(v) == v.range.end - v.range.start

Slice_is_empty(v) == Slice_len(v) = 0
SliceMut_is_empty(v) == SliceMut_len(v) = 0

Slice_from(buf) == MkSlice(Range(0, RingBuffer_len(buf)))
SliceMut_from(buf) == MkSliceMut(Range(0, RingBuffer_len(buf)))

Slice_clone(v) == MkSlice(v.range)
SliceMut_unmut(v) == MkSlice(v.range)

---------------------------------------------------------------------------
(* split_at *)

NoRange == Range(0, 0)

Slice_split_at(v, index) ==
    IF index > Slice_len(v)
    THEN [tag |-> "Panic", left |-> NoRange, right |-> NoRange]
    ELSE LET at == v.range.start + index
         IN [tag |-> "Ok", left  |-> Range(v.range.start, at),
                           right |-> Range(at, v.range.end)]

\* split_at that forgets to translate the index for the right half
SliceMut_split_at_untranslated(v, index) ==
    IF index > SliceMut_len(v)
    THEN [tag |-> "Panic", left |-> NoRange, right |-> NoRange]
    ELSE LET at == v.range.start + index
         IN [tag |-> "Ok", left  |-> Range(v.range.start, at),
                           right |-> Range(index, v.range.end)]

SliceMut_split_at(v, index) ==
    IF index > SliceMut_len(v)
    THEN [tag |-> "Panic", left |-> NoRange, right |-> NoRange]
    ELSE LET at == v.range.start + index
         IN [tag |-> "Ok", left  |-> Range(v.range.start, at),
                           right |-> Range(at, v.range.end)]

---------------------------------------------------------------------------
(* slice(range): the bounds are translated with usize additions; with      *)
(* overflow checks on (a debug build) an addition that leaves the word     *)
(* panics, with them off (a release build) it wraps.                       *)

BoundKinds == {"Unbounded", "Included", "Excluded"}

\* start bound: [panic, at]
TranslateStart(v, sb, a, checked) ==
    CASE sb = "Unbounded" -> [panic |-> FALSE, at |-> v.range.start]
      [] sb = "Included"  -> [panic |-> checked /\ AddOverflows(v.range.start, a),
                              at    |-> WrappingAdd(v.range.start, a)]
      [] sb = "Excluded"  -> [panic |-> TRUE, at |-> 0]

\* end bound that treats ..=b like ..b
TranslateEnd_no_inclusive(v, eb, b, checked) ==
    CASE eb = "Unbounded" -> [panic |-> FALSE, at |-> v.range.end]
      [] eb = "Included"  -> [panic |-> checked /\ AddOverflows(v.range.start, b),
                              at    |-> WrappingAdd(v.range.start, b)]
      [] eb = "Excluded"  -> [panic |-> checked /\ AddOverflows(v.range.start, b),
                              at    |-> WrappingAdd(v.range.start, b)]

\* end bound: [panic, at]
TranslateEnd(v, eb, b, checked) ==
    CASE eb = "Unbounded" -> [panic |-> FALSE, at |-> v.range.end]
      [] eb = "Included"  ->
           [panic |-> checked /\ (AddOverflows(v.range.start, b)
                                  \/ AddOverflows(v.range.start + b, 1)),
            at    |-> WrappingAdd(WrappingAdd(v.range.start, b), 1)]
      [] eb = "Excluded"  -> [panic |-> checked /\ AddOverflows(v.range.start, b),
                              at    |-> WrappingAdd(v.range.start, b)]

Slice_slice(v, sb, a, eb, b, checked) ==
    LET st == TranslateStart(v, sb, a, checked)
        en == TranslateEnd(v, eb, b, checked)
    IN IF st.panic \/ en.panic
       THEN [tag |-> "Panic", range |-> NoRange]
       ELSE IF st.at < v.range.start \/ en.at > v.range.end \/ st.at > en.at
            THEN [tag |-> "Panic", range |-> NoRange]
            ELSE [tag |-> "Ok", range |-> Range(st.at, en.at)]

\* slice that does not compare the new end with the parent's end
SliceMut_slice_open_end(v, sb, a, eb, b, checked) ==
    LET st == TranslateStart(v, sb, a, checked)
        en == TranslateEnd(v, eb, b, checked)
    IN IF st.panic \/ en.panic
       THEN [tag |-> "Panic", range |-> NoRange]
       ELSE IF st.at < v.range.start \/ st.at > en.at
            THEN [tag |-> "Panic", range |-> NoRange]
            ELSE [tag |-> "Ok", range |-> Range(st.at, en.at)]

SliceMut_slice(v, sb, a, eb, b, checked) ==
    LET st == TranslateStart(v, sb, a, checked)
        en == TranslateEnd(v, eb, b, checked)
    IN IF st.panic \/ en.panic
       THEN [tag |-> "Panic", range |-> NoRange]
       ELSE IF st.at < v.range.start \/ en.at > v.range.end \/ st.at > en.at
            THEN [tag |-> "Panic", range |-> NoRange]
            ELSE [tag |-> "Ok", range |-> Range(st.at, en.at)]

---------------------------------------------------------------------------
(* Element access *)

NoneRef == [tag |-> "None", ref |-> -1]
SomeRef(p) == [tag |-> "Some", ref |-> p]

Slice_get_unchecked(buf, v, index) ==
    RingBuffer_get_unchecked(buf, v.range.start + index)

\* get whose bounds check is off by one
Slice_get_off_by_one(buf, v, index) ==
    IF index > Slice_len(v) THEN NoneRef
    ELSE SomeRef(Slice_get_unchecked(buf, v, index))

Slice_get(buf, v, index) ==
    IF index >= Slice_len(v) THEN NoneRef
    ELSE SomeRef(Slice_get_unchecked(buf, v, index))

Slice_first(buf, v) == Slice_get(buf, v, 0)

Slice_last(buf, v) ==
    IF Slice_is_empty(v) THEN NoneRef
    ELSE Slice_get(buf, v, Slice_len(v) - 1)

SliceMut_get_unchecked(buf, v, index) ==
    RingBuffer_get_unchecked(buf, v.range.start + index)

SliceMut_get(buf, v, index) ==
    IF index >= SliceMut_len(v) THEN NoneRef
    ELSE SomeRef(SliceMut_get_unchecked(buf, v, index))

SliceMut_get_unchecked_mut(buf, v, index) ==
    RingBuffer_get_unchecked(buf, v.range.start + index)

SliceMut_get_mut(buf, v, index) ==
    IF index >= SliceMut_len(v) THEN NoneRef
    ELSE SomeRef(SliceMut_get_unchecked_mut(buf, v, index))

SliceMut_first(buf, v) == SliceMut_get(buf, v, 0)

SliceMut_first_mut(buf, v) == SliceMut_get_mut(buf, v, 0)

SliceMut_last(buf, v) ==
    IF SliceMut_is_empty(v) THEN NoneRef
    ELSE SliceMut_get(buf, v, SliceMut_len(v) - 1)

SliceMut_last_mut(buf, v) ==
    IF SliceMut_is_empty(v) THEN NoneRef
    ELSE SliceMut_get_mut(buf, v, SliceMut_len(v) - 1)

\* view[i]: range.start + index goes straight to the buffer's checked index
Slice_index(buf, v, index, checked) ==
    IF checked /\ AddOverflows(v.range.start, index)
    THEN [tag |-> "Panic", ref |-> -1]
    ELSE RingBuffer_index(buf, WrappingAdd(v.range.start, index))

SliceMut_index(buf, v, index, checked) ==
    IF checked /\ AddOverflows(v.range.start, index)
    THEN [tag |-> "Panic", ref |-> -1]
    ELSE RingBuffer_index(buf, WrappingAdd(v.range.start, index))

SliceMut_index_mut(buf, v, index, checked) ==
    IF checked /\ AddOverflows(v.range.start, index)
    THEN [tag |-> "Panic", ref |-> -1]
    ELSE RingBuffer_index(buf, WrappingAdd(v.range.start, index))

\* set whose bounds check is off by one
SliceMut_set_off_by_one(buf, v, index, value) ==
    IF index > SliceMut_len(v)
    THEN [tag |-> "Panic", old |-> Uninit, buf |-> buf]
    ELSE RingBuffer_set(buf, v.range.start + index, value)

SliceMut_set(buf, v, index, value) ==
    IF index >= SliceMut_len(v)
    THEN [tag |-> "Panic", old |-> Uninit, buf |-> buf]
    ELSE RingBuffer_set(buf, v.range.start + index, value)

---------------------------------------------------------------------------
(* Iterators and equality *)

\* iter() that starts at the buffer's origin, not at the view's start
Slice_iter_from_origin(buf, v) ==
    [left_index  |-> buf.origin,
     right_index |-> buf.origin + Slice_len(v),
     remaining   |-> Slice_len(v)]

Slice_iter(buf, v) ==
    [left_index  |-> buf.origin + v.range.start,
     right_index |-> buf.origin + v.range.start + Slice_len(v),
     remaining   |-> Slice_len(v)]

\* iter() whose right cursor leaves out the view's start
SliceMut_iter_no_start(buf, v) ==
    [left_index  |-> buf.origin + v.range.start,
     right_index |-> buf.origin + SliceMut_len(v),
     remaining   |-> SliceMut_len(v)]

SliceMut_iter(buf, v) ==
    [left_index  |-> buf.origin + v.range.start,
     right_index |-> buf.origin + v.range.start + SliceMut_len(v),
     remaining   |-> SliceMut_len(v)]

\* IterMut::new_slice(buffer, index, len): the window of len positions
\* from index on
IterMut_new_slice(buf, index, len) ==
    [left_index  |-> index,
     right_index |-> index + len,
     remaining   |-> len]

SliceMut_iter_mut(buf, v) ==
    IterMut_new_slice(buf, buf.origin + v.range.start, SliceMut_len(v))

\* next(): nothing when remaining = 0; otherwise the slot of left_index,
\* reduced mod capacity, and the left cursor moves up
Iter_next(buf, it) ==
    IF it.remaining = 0
    THEN [tag |-> "None", ref |-> -1, it |-> it]
    ELSE [tag |-> "Some", ref |-> it.left_index % Capacity,
          it  |-> [it EXCEPT !.left_index = @ + 1, !.remaining = @ - 1]]

\* next_back(): nothing when remaining = 0; otherwise the right cursor moves
\* down and its slot, reduced mod capacity, is yielded
Iter_next_back(buf, it) ==
    IF it.remaining = 0
    THEN [tag |-> "None", ref |-> -1, it |-> it]
    ELSE [tag |-> "Some", ref |-> (it.right_index - 1) % Capacity,
          it  |-> [it EXCEPT !.right_index = @ - 1, !.remaining = @ - 1]]

\* the iterator over a whole buffer
RingBuffer_iter(buf) ==
    [left_index  |-> buf.origin,
     right_index |-> buf.origin + buf.length,
     remaining   |-> buf.length]

\* what next() yields until the iterator is exhausted: the slot of each
\* position from left_index on, reduced mod capacity
Iter_items(buf, it) ==
    [j \in 1..it.remaining |-> buf.slots[(it.left_index + j - 1) % Capacity]]

\* Iterator::eq: both run out together and agree item by item
Iterator_eq(xs, ys) ==
    /\ Len(xs) = Len(ys)
    /\ \A j \in 1..Len(xs) : xs[j] = ys[j]

Slice_eq_Slice(buf, v, obuf, ov) ==
    /\ Slice_len(v) = Slice_len(ov)
    /\ Iterator_eq(Iter_items(buf, Slice_iter(buf, v)),
                   Iter_items(obuf, Slice_iter(obuf, ov)))

Slice_eq_SliceMut(buf, v, obuf, ov) ==
    /\ Slice_len(v) = SliceMut_len(ov)
    /\ Iterator_eq(Iter_items(buf, Slice_iter(buf, v)),
                   Iter_items(obuf, SliceMut_iter(obuf, ov)))

Slice_eq_RingBuffer(buf, v, obuf) ==
    /\ Slice_len(v) = RingBuffer_len(obuf)
    /\ Iterator_eq(Iter_items(buf, Slice_iter(buf, v)),
                   Iter_items(obuf, RingBuffer_iter(obuf)))

\* against S: Borrow<[A]>, a builtin contiguous sequence
Slice_eq_seq(buf, v, q) ==
    /\ Slice_len(v) = Len(q)
    /\ Iterator_eq(Iter_items(buf, Slice_iter(buf, v)), q)

SliceMut_eq_SliceMut(buf, v, obuf, ov) ==
    /\ SliceMut_len(v) = SliceMut_len(ov)
    /\ Iterator_eq(Iter_items(buf, SliceMut_iter(buf, v)),
                   Iter_items(obuf, SliceMut_iter(obuf, ov)))

SliceMut_eq_Slice(buf, v, obuf, ov) ==
    /\ SliceMut_len(v) = Slice_len(ov)
    /\ Iterator_eq(Iter_items(buf, SliceMut_iter(buf, v)),
                   Iter_items(obuf, Slice_iter(obuf, ov)))

SliceMut_eq_RingBuffer(buf, v, obuf) ==
    /\ SliceMut_len(v) = RingBuffer_len(obuf)
    /\ Iterator_eq(Iter_items(buf, SliceMut_iter(buf, v)),
                   Iter_items(obuf, RingBuffer_iter(obuf)))

SliceMut_eq_seq(buf, v, q) ==
    /\ SliceMut_len(v) = Len(q)
    /\ Iterator_eq(Iter_items(buf, SliceMut_iter(buf, v)), q)

---------------------------------------------------------------------------
(* Binary search *)

\* Ord::cmp on the elements
Cmp(x, y) == IF x < y THEN "Less" ELSE IF x = y THEN "Equal" ELSE "Greater"

Found(i) == [tag |-> "Ok", at |-> i]
Missing(i) == [tag |-> "Err", at |-> i]

\* the comparator of binary_search: |value| value.cmp(target), by slot
CmpWith(buf, target) == [p \in Slots |-> Cmp(buf.slots[p], target)]

\* loop that advances base only past elements less than the target
RECURSIVE Slice_search_loop_strict(_, _, _, _, _)
Slice_search_loop_strict(buf, v, f, base, size) ==
    IF size > 1
    THEN LET half == size \div 2
             mid  == base + half
             cmp  == f[Slice_get_unchecked(buf, v, mid)]
         IN Slice_search_loop_strict(buf, v, f,
                                     IF cmp = "Less" THEN mid ELSE base,
                                     size - half)
    ELSE base

\* while size > 1 { .. }: the base the loop ends with
RECURSIVE Slice_search_loop(_, _, _, _, _)
Slice_search_loop(buf, v, f, base, size) ==
    IF size > 1
    THEN LET half == size \div 2
             mid  == base + half
             cmp  == f[Slice_get_unchecked(buf, v, mid)]
         IN Slice_search_loop(buf, v, f,
                              IF cmp = "Greater" THEN base ELSE mid,
                              size - half)
    ELSE base

Slice_binary_search_by(buf, v, f) ==
    LET size == Slice_len(v)
    IN IF size = 0 THEN Missing(0)
       ELSE LET base == Slice_search_loop(buf, v, f, 0, size)
                cmp  == f[Slice_get_unchecked(buf, v, base)]
            IN IF cmp = "Equal" THEN Found(base)
               ELSE Missing(base + (IF cmp = "Less" THEN 1 ELSE 0))

Slice_binary_search(buf, v, target) ==
    Slice_binary_search_by(buf, v, CmpWith(buf, target))

RECURSIVE SliceMut_search_loop(_, _, _, _, _)
SliceMut_search_loop(buf, v, f, base, size) ==
    IF size > 1
    THEN LET half == size \div 2
             mid  == base + half
             cmp  == f[SliceMut_get_unchecked(buf, v, mid)]
         IN SliceMut_search_loop(buf, v, f,
                                 IF cmp = "Greater" THEN base ELSE mid,
                                 size - half)
    ELSE base

\* binary_search_by that answers Err(base) whatever the last comparison says
SliceMut_binary_search_by_no_step(buf, v, f) ==
    LET size == SliceMut_len(v)
    IN IF size = 0 THEN Missing(0)
       ELSE LET base == SliceMut_search_loop(buf, v, f, 0, size)
                cmp  == f[SliceMut_get_unchecked(buf, v, base)]
            IN IF cmp = "Equal" THEN Found(base)
               ELSE Missing(base)

SliceMut_binary_search_by(buf, v, f) ==
    LET size == SliceMut_len(v)
    IN IF size = 0 THEN Missing(0)
       ELSE LET base == SliceMut_search_loop(buf, v, f, 0, size)
                cmp  == f[SliceMut_get_unchecked(buf, v, base)]
            IN IF cmp = "Equal" THEN Found(base)
               ELSE Missing(base + (IF cmp = "Less" THEN 1 ELSE 0))

SliceMut_binary_search(buf, v, target) ==
    SliceMut_binary_search_by(buf, v, CmpWith(buf, target))

\* The comparator is an FnMut and need not be a function of the element: it
\* is the sequence of its answers, answers[k] being what its k-th call says.
\* Every read the search makes is listed with the base and size it was made
\* under: the reads at mid inside the loop, then the read at base after it.
Orderings == {"Less", "Equal", "Greater"}

\* the calls a search over size elements makes: size shrinks the same way
\* whatever the comparator answers
RECURSIVE SearchCalls(_)
SearchCalls(size) ==
    IF size > 1 THEN 1 + SearchCalls(size - (size \div 2)) ELSE 1

Read(place, base, size, index, ref, cmp) ==
    [place |-> place, base |-> base, size |-> size, index |-> index,
     ref |-> ref, cmp |-> cmp]

RECURSIVE Slice_search_reads(_, _, _, _, _, _)
Slice_search_reads(buf, v, answers, base, size, k) ==
    IF size > 1
    THEN LET half == size \div 2
             mid  == base + half
             cmp  == answers[k]
         IN <<Read("loop", base, size, mid, Slice_get_unchecked(buf, v, mid), cmp)>>
              \o Slice_search_reads(buf, v, answers,
                                    IF cmp = "Greater" THEN base ELSE mid,
                                    size - half, k + 1)
    ELSE <<Read("end", base, size, base, Slice_get_unchecked(buf, v, base),
                answers[k])>>

\* loop that moves base past mid when the comparison is not Greater
RECURSIVE SliceMut_search_reads_past_mid(_, _, _, _, _, _)
SliceMut_search_reads_past_mid(buf, v, answers, base, size, k) ==
    IF size > 1
    THEN LET half == size \div 2
             mid  == base + half
             cmp  == answers[k]
         IN <<Read("loop", base, size, mid, SliceMut_get_unchecked(buf, v, mid), cmp)>>
              \o SliceMut_search_reads_past_mid(buf, v, answers,
                                    IF cmp = "Greater" THEN base ELSE mid + 1,
                                    size - half, k + 1)
    ELSE <<Read("end", base, size, base, SliceMut_get_unchecked(buf, v, base),
                answers[k])>>

RECURSIVE SliceMut_search_reads(_, _, _, _, _, _)
SliceMut_search_reads(buf, v, answers, base, size, k) ==
    IF size > 1
    THEN LET half == size \div 2
             mid  == base + half
             cmp  == answers[k]
         IN <<Read("loop", base, size, mid, SliceMut_get_unchecked(buf, v, mid), cmp)>>
              \o SliceMut_search_reads(buf, v, answers,
                                       IF cmp = "Greater" THEN base ELSE mid,
                                       size - half, k + 1)
    ELSE <<Read("end", base, size, base, SliceMut_get_unchecked(buf, v, base),
                answers[k])>>

\* the answer of binary_search_by after its reads
SearchResult(reads) ==
    IF reads = <<>> THEN Missing(0)
    ELSE LET end == reads[Len(reads)]
         IN IF end.cmp = "Equal" THEN Found(end.base)
            ELSE Missing(end.base + (IF end.cmp = "Less" THEN 1 ELSE 0))

\* binary_search_by with its reads: [reads, res]
Slice_binary_search_by_calls(buf, v, answers) ==
    LET size  == Slice_len(v)
        reads == IF size = 0 THEN <<>>
                 ELSE Slice_search_reads(buf, v, answers, 0, size, 1)
    IN [reads |-> reads, res |-> SearchResult(reads)]

SliceMut_binary_search_by_calls(buf, v, answers) ==
    LET size  == SliceMut_len(v)
        reads == IF size = 0 THEN <<>>
                 ELSE SliceMut_search_reads(buf, v, answers, 0, size, 1)
    IN [reads |-> reads, res |-> SearchResult(reads)]

---------------------------------------------------------------------------
(* State *)

\* what the last operation was given and what it gave back
NoLast ==
    [op |-> "new", mut |-> FALSE, recv |-> NoRange,
     sb |-> "", a |-> 0, eb |-> "", b |-> 0, value |-> 0,
     outcome |-> "", r1 |-> NoRange, r2 |-> NoRange, ref |-> -1, old |-> 0,
     at |-> 0, other |-> "", elems |-> <<>>]

\* the iterators alive, a bag of records: the Iter / IterMut value itself
\* (it), whether it is an IterMut (mut), the view it borrows (vmut, range),
\* and the slots its forward and backward steps have yielded so far
NoIter == EmptyBag

Live == BagToSet(views)
NumViews == BagCardinality(views)
Add1(vs, v) == vs (+) SetToBag({v})
Remove1(vs, v) == vs (-) SetToBag({v})

\* a panic is fatal: it unwinds, and nothing runs after it
Panicked == last.outcome = "panic"

Called(op, v) == [NoLast EXCEPT !.op = op, !.mut = v.mut, !.recv = v.range]

\* the logical sequence 1, 2, .., n: every element tells its index
Ramp(n) == [i \in 1..n |-> i]

\* buffers of every origin and length whose elements are all distinct
RampBuffers == {MakeBuffer(o, Ramp(n)) : o \in Slots, n \in 0..Min(MaxLen, Capacity)}

\* ranges are logical indices and the origin plays no part in them: the life
\* cycle starts from the layout that wraps right after the first element
Init ==
    /\ buffer \in {b \in RampBuffers : b.origin = Capacity - 1}
    /\ views = EmptyBag
    /\ last = NoLast
    /\ iter = NoIter

---------------------------------------------------------------------------
(* Creating and releasing views *)

\* SliceMut::from(&mut buffer): the exclusive borrow, no other view alive
FromMut ==
    /\ ~Panicked
    /\ NumViews = 0
    /\ views' = SetToBag({SliceMut_from(buffer)})
    /\ last' = [Called("from", SliceMut_from(buffer)) EXCEPT
                  !.outcome = "ok", !.r1 = SliceMut_from(buffer).range]
    /\ UNCHANGED <<buffer, iter>>

\* Slice::from(&buffer): a shared borrow, taken while no exclusive borrow is
\* alive; other Slices may be
FromShared ==
    /\ ~Panicked
    /\ NumViews < MaxViews
    /\ \A w \in Live : ~w.mut
    /\ views' = Add1(views, Slice_from(buffer))
    /\ last' = [Called("from", Slice_from(buffer)) EXCEPT
                  !.outcome = "ok", !.r1 = Slice_from(buffer).range]
    /\ UNCHANGED <<buffer, iter>>

\* slice.clone(): one more Slice over the same range; the original stays
Clone ==
    /\ ~Panicked
    /\ NumViews < MaxViews
    /\ \E v \in Live :
        /\ ~v.mut
        /\ views' = Add1(views, Slice_clone(v))
        /\ last' = [Called("clone", v) EXCEPT
                      !.outcome = "ok", !.r1 = Slice_clone(v).range]
        /\ UNCHANGED <<buffer, iter>>

DropView ==
    /\ ~Panicked
    /\ \E v \in Live :
        /\ views' = Remove1(views, v)
        /\ last' = [NoLast EXCEPT !.op = "drop", !.outcome = "ok"]
        /\ UNCHANGED <<buffer, iter>>

Unmut ==
    /\ ~Panicked
    /\ \E v \in Live :
        /\ v.mut
        /\ views' = Add1(Remove1(views, v), SliceMut_unmut(v))
        /\ last' = [Called("unmut", v) EXCEPT
                      !.outcome = "ok", !.r1 = SliceMut_unmut(v).range]
        /\ UNCHANGED <<buffer, iter>>

---------------------------------------------------------------------------
(* slice and split_at consume the view.  A panic unwinds: it drops every    *)
(* view, and no operation follows it.                                     *)

\* the sub-ranges tried: .., a.., ..b, ..=b, a..b, a..=b and an excluded start
StartBounds ==
    {[kind |-> "Unbounded", at |-> 0], [kind |-> "Excluded", at |-> 0]}
      \cup {[kind |-> "Included", at |-> a] : a \in Indices}

EndBounds ==
    {[kind |-> "Unbounded", at |-> 0]}
      \cup {[kind |-> k, at |-> b] : k \in {"Included", "Excluded"}, b \in Indices}

SliceCall(v, sb, a, eb, b, checked) ==
    IF v.mut THEN SliceMut_slice(v, sb, a, eb, b, checked)
    ELSE Slice_slice(v, sb, a, eb, b, checked)

\* the build's overflow checks show only in a call whose additions overflow
SliceBuilds(v, sb, eb) ==
    IF \/ sb.kind = "Included" /\ AddOverflows(v.range.start, sb.at)
       \/ eb.kind = "Excluded" /\ AddOverflows(v.range.start, eb.at)
       \/ eb.kind = "Included" /\ AddOverflows(v.range.start + eb.at, 1)
    THEN BOOLEAN ELSE {TRUE}

SliceOp ==
    /\ ~Panicked
    /\ \E v \in Live, sb \in StartBounds, eb \in EndBounds :
       \E checked \in SliceBuilds(v, sb, eb) :
        LET res  == SliceCall(v, sb.kind, sb.at, eb.kind, eb.at, checked)
            call == [Called("slice", v) EXCEPT
                       !.sb = sb.kind, !.a = sb.at, !.eb = eb.kind, !.b = eb.at]
        IN /\ IF res.tag = "Ok"
              THEN /\ views' = Add1(Remove1(views, v),
                                    [mut |-> v.mut, range |-> res.range])
                   /\ last' = [call EXCEPT !.outcome = "ok", !.r1 = res.range]
              ELSE /\ views' = EmptyBag
                   /\ last' = [call EXCEPT !.outcome = "panic"]
           /\ iter' = IF res.tag = "Ok" THEN iter ELSE NoIter
           /\ UNCHANGED buffer

SplitCall(v, index) ==
    IF v.mut THEN SliceMut_split_at(v, index) ELSE Slice_split_at(v, index)

SplitAt ==
    /\ ~Panicked
    /\ \E v \in Live, index \in Indices :
        LET res  == SplitCall(v, index)
            call == [Called("split_at", v) EXCEPT !.a = index]
        IN /\ NumViews < MaxViews
           /\ IF res.tag = "Ok"
              THEN /\ views' = Add1(Add1(Remove1(views, v),
                                         [mut |-> v.mut, range |-> res.left]),
                                    [mut |-> v.mut, range |-> res.right])
                   /\ last' = [call EXCEPT !.outcome = "ok",
                                           !.r1 = res.left, !.r2 = res.right]
              ELSE /\ views' = EmptyBag
                   /\ last' = [call EXCEPT !.outcome = "panic"]
           /\ iter' = IF res.tag = "Ok" THEN iter ELSE NoIter
           /\ UNCHANGED buffer

---------------------------------------------------------------------------
(* Element access through a view *)

\* an Option<&A> or a reference/panic as the outcome of the call
Outcome(res) ==
    CASE res.tag = "Some"  -> "ok"
      [] res.tag = "Ref"   -> "ok"
      [] res.tag = "None"  -> "none"
      [] res.tag = "Panic" -> "panic"

Accessed(op, v, index, res) ==
    [Called(op, v) EXCEPT !.a = index, !.outcome = Outcome(res), !.ref = res.ref]

Get ==
    /\ ~Panicked
    /\ \E v \in Live, index \in Indices :
        /\ last' = Accessed("get", v, index,
                            IF v.mut THEN SliceMut_get(buffer, v, index)
                            ELSE Slice_get(buffer, v, index))
        /\ UNCHANGED <<buffer, views, iter>>

GetMut ==
    /\ ~Panicked
    /\ \E v \in Live, index \in Indices :
        /\ v.mut
        /\ last' = Accessed("get_mut", v, index, SliceMut_get_mut(buffer, v, index))
        /\ UNCHANGED <<buffer, views, iter>>

First ==
    /\ ~Panicked
    /\ \E v \in Live :
        /\ last' = Accessed("first", v, 0,
                            IF v.mut THEN SliceMut_first(buffer, v)
                            ELSE Slice_first(buffer, v))
        /\ UNCHANGED <<buffer, views, iter>>

FirstMut ==
    /\ ~Panicked
    /\ \E v \in Live :
        /\ v.mut
        /\ last' = Accessed("first_mut", v, 0, SliceMut_first_mut(buffer, v))
        /\ UNCHANGED <<buffer, views, iter>>

Last ==
    /\ ~Panicked
    /\ \E v \in Live :
        /\ last' = Accessed("last", v, 0,
                            IF v.mut THEN SliceMut_last(buffer, v)
                            ELSE Slice_last(buffer, v))
        /\ UNCHANGED <<buffer, views, iter>>

LastMut ==
    /\ ~Panicked
    /\ \E v \in Live :
        /\ v.mut
        /\ last' = Accessed("last_mut", v, 0, SliceMut_last_mut(buffer, v))
        /\ UNCHANGED <<buffer, views, iter>>

IndexOp ==
    /\ ~Panicked
    /\ \E v \in Live, index \in Indices, checked \in BOOLEAN :
        /\ last' = Accessed("index", v, index,
                            IF v.mut THEN SliceMut_index(buffer, v, index, checked)
                            ELSE Slice_index(buffer, v, index, checked))
        /\ views' = IF last'.outcome = "panic" THEN EmptyBag ELSE views
        /\ iter' = IF last'.outcome = "panic" THEN NoIter ELSE iter
        /\ UNCHANGED buffer

IndexMut ==
    /\ ~Panicked
    /\ \E v \in Live, index \in Indices, checked \in BOOLEAN :
        /\ v.mut
        /\ last' = Accessed("index_mut", v, index,
                            SliceMut_index_mut(buffer, v, index, checked))
        /\ views' = IF last'.outcome = "panic" THEN EmptyBag ELSE views
        /\ iter' = IF last'.outcome = "panic" THEN NoIter ELSE iter
        /\ UNCHANGED buffer

Set ==
    /\ ~Panicked
    /\ \E v \in Live, index \in Indices, value \in Val :
        LET res == SliceMut_set(buffer, v, index, value)
        IN /\ v.mut
           /\ buffer' = res.buf
           /\ last' = [Called("set", v) EXCEPT
                         !.a = index, !.value = value,
                         !.outcome = IF res.tag = "Ok" THEN "ok" ELSE "panic",
                         !.old = res.old]
           /\ views' = IF res.tag = "Ok" THEN views ELSE EmptyBag
           /\ iter' = IF res.tag = "Ok" THEN iter ELSE NoIter

---------------------------------------------------------------------------
(* Spec: the life cycle of the views (from, slice, split_at, unmut, drop) *)

Next ==
    \/ FromMut
    \/ DropView
    \/ Unmut
    \/ SliceOp
    \/ SplitAt
    \/ FromShared
    \/ Clone

Spec == Init /\ [][Next]_vars

---------------------------------------------------------------------------
(* SpecAccess: reading and borrowing elements through split views *)

NextAccess ==
    \/ FromMut
    \/ SplitAt
    \/ Unmut
    \/ Get
    \/ GetMut
    \/ First
    \/ FirstMut
    \/ Last
    \/ LastMut
    \/ IndexOp
    \/ IndexMut
    \/ FromShared
    \/ Clone

InitAccess ==
    /\ buffer \in RampBuffers
    /\ views = EmptyBag
    /\ last = NoLast
    /\ iter = NoIter

SpecAccess == InitAccess /\ [][NextAccess]_vars

---------------------------------------------------------------------------
(* SpecSet: writing elements through split views *)

NextSet ==
    \/ FromMut
    \/ SplitAt
    \/ Set

SpecSet == InitAccess /\ [][NextSet]_vars

---------------------------------------------------------------------------
(* SpecSearch: binary search over views of sorted buffers *)

\* the keys the buffers hold; the targets also fall below, between and above
Keys == {1, 3, 5, 8}
Targets == 0..9

IsSorted(q) == \A i \in 1..(Len(q) - 1) : q[i] <= q[i + 1]

SortedBuffers ==
    {MakeBuffer(Capacity - 1, q) : q \in {r \in SeqsUpTo(Keys, Capacity) : IsSorted(r)}}

InitSearch ==
    /\ buffer \in SortedBuffers
    /\ views = EmptyBag
    /\ last = NoLast
    /\ iter = NoIter

BinarySearch ==
    /\ ~Panicked
    /\ \E v \in Live, target \in Targets :
          LET res == IF v.mut THEN SliceMut_binary_search(buffer, v, target)
                     ELSE Slice_binary_search(buffer, v, target)
          IN /\ last' = [Called("binary_search", v) EXCEPT
                           !.value = target,
                           !.outcome = IF res.tag = "Ok" THEN "ok" ELSE "err",
                           !.at = res.at]
             /\ UNCHANGED <<buffer, views, iter>>

NextSearch ==
    \/ FromMut
    \/ FromShared
    \/ SplitAt
    \/ BinarySearch
    \/ Clone

SpecSearch == InitSearch /\ [][NextSearch]_vars

---------------------------------------------------------------------------
(* SpecSearchBy: binary_search_by with any comparator, over views of every *)
(* length up to the capacity                                               *)

FullBuffers == {MakeBuffer(Capacity - 1, Ramp(n)) : n \in 0..Capacity}

InitSearchBy ==
    /\ buffer \in FullBuffers
    /\ views = EmptyBag
    /\ last = NoLast
    /\ iter = NoIter

BinarySearchBy ==
    /\ ~Panicked
    /\ \E v \in Live :
          \E answers \in [1..SearchCalls(v.range.end - v.range.start) -> Orderings] :
              LET run == IF v.mut
                         THEN SliceMut_binary_search_by_calls(buffer, v, answers)
                         ELSE Slice_binary_search_by_calls(buffer, v, answers)
              IN /\ last' = [Called("binary_search_by", v) EXCEPT
                               !.elems = run.reads,
                               !.outcome = IF run.res.tag = "Ok" THEN "ok" ELSE "err",
                               !.at = run.res.at]
                 /\ UNCHANGED <<buffer, views, iter>>

NextSearchBy ==
    \/ FromMut
    \/ FromShared
    \/ SplitAt
    \/ BinarySearchBy
    \/ Clone

SpecSearchBy == InitSearchBy /\ [][NextSearchBy]_vars

---------------------------------------------------------------------------
(* SpecEq: comparing a view with a view, an owned buffer or a sequence *)

\* the sequences compared: every content up to MaxLen
Contents == SeqsUpTo(Val, Min(MaxLen, Capacity))

\* the view's buffer wraps after its first element; the owned buffers it is
\* compared with have every origin
AnyBuffers == {MakeBuffer(Capacity - 1, q) : q \in Contents}

InitEq ==
    /\ buffer \in AnyBuffers
    /\ views = EmptyBag
    /\ last = NoLast
    /\ iter = NoIter

Compared(v, kind, r, q, res) ==
    [Called("eq", v) EXCEPT !.other = kind, !.r1 = r, !.elems = q,
                            !.outcome = IF res THEN "true" ELSE "false"]

\* view == view, both over the buffer of the model
EqView ==
    /\ ~Panicked
    /\ \E v \in Live, w \in Live :
          LET res == CASE ~v.mut /\ ~w.mut -> Slice_eq_Slice(buffer, v, buffer, w)
                       [] ~v.mut /\ w.mut  -> Slice_eq_SliceMut(buffer, v, buffer, w)
                       [] v.mut /\ ~w.mut  -> SliceMut_eq_Slice(buffer, v, buffer, w)
                       [] v.mut /\ w.mut   -> SliceMut_eq_SliceMut(buffer, v, buffer, w)
          IN /\ last' = Compared(v, IF w.mut THEN "SliceMut" ELSE "Slice",
                                 w.range, <<>>, res)
             /\ UNCHANGED <<buffer, views, iter>>

\* view == owned RingBuffer, of any origin
EqRingBuffer ==
    /\ ~Panicked
    /\ \E v \in Live, o \in Slots, q \in Contents :
          LET obuf == MakeBuffer(o, q)
              res  == IF v.mut THEN SliceMut_eq_RingBuffer(buffer, v, obuf)
                      ELSE Slice_eq_RingBuffer(buffer, v, obuf)
          IN /\ last' = Compared(v, "RingBuffer", NoRange, q, res)
             /\ UNCHANGED <<buffer, views, iter>>

\* view == builtin contiguous sequence
EqSeq ==
    /\ ~Panicked
    /\ \E v \in Live, q \in Contents :
          LET res == IF v.mut THEN SliceMut_eq_seq(buffer, v, q)
                     ELSE Slice_eq_seq(buffer, v, q)
          IN /\ last' = Compared(v, "seq", NoRange, q, res)
             /\ UNCHANGED <<buffer, views, iter>>

NextEq ==
    \/ FromMut
    \/ SplitAt
    \/ Unmut
    \/ EqView
    \/ EqRingBuffer
    \/ EqSeq
    \/ FromShared
    \/ Clone

SpecEq == InitEq /\ [][NextEq]_vars

---------------------------------------------------------------------------
(* SpecIter: iterating views from both ends.  iter(&self) borrows the view *)
(* shared and iter_mut(&mut self) borrows it exclusively; while the        *)
(* iterator is alive the view it borrows is not moved (split_at, unmut),   *)
(* and an exclusively borrowed view is not borrowed again.  Calls on the   *)
(* other views, clone and Slice::from go on while iterators are alive.     *)

Iters == BagToSet(iter)
NumIters == BagCardinality(iter)

\* a new iterator over the view v
IterOf(v, m, it) ==
    [mut |-> m, vmut |-> v.mut, range |-> v.range, it |-> it,
     front |-> <<>>, back |-> <<>>]

\* the view an iterator borrows
Borrowed(i) == [mut |-> i.vmut, range |-> i.range]

\* the IterMut iterators of its that borrow v
Exclusive(its, v) ==
    LET on == {i \in BagToSet(its) : i.mut /\ Borrowed(i) = v}
    IN BagCardinality([i \in on |-> its[i]])

\* the copies of v the iterators its keep borrowed: one for every IterMut,
\* and one more that the Iters over v share
BorrowedCopies(its, v) ==
    LET shared == \E j \in BagToSet(its) : ~j.mut /\ Borrowed(j) = v
    IN Exclusive(its, v) + (IF shared THEN 1 ELSE 0)

\* the borrows are ones the borrow checker accepts: every borrowed copy of
\* a view is a copy that is alive
BorrowsFit(vs, its) ==
    \A i \in BagToSet(its) :
        BorrowedCopies(its, Borrowed(i)) <= CopiesIn(Borrowed(i), vs)

\* the view that the step moves (the self of split_at or unmut) is a copy no
\* iterator borrows: a borrowed view cannot be moved, whatever the call
\* would have returned
MovesUnborrowed ==
    LET moved == [mut |-> last'.mut, range |-> last'.recv]
    IN BorrowedCopies(iter, moved) < CopiesIn(moved, views)

\* iter() on a view of either kind
IterOp ==
    /\ ~Panicked
    /\ NumIters < MaxIters
    /\ \E v \in Live :
          /\ iter' = Add1(iter, IterOf(v, FALSE,
                                       IF v.mut THEN SliceMut_iter(buffer, v)
                                       ELSE Slice_iter(buffer, v)))
          /\ BorrowsFit(views, iter')
          /\ last' = [Called("iter", v) EXCEPT !.outcome = "ok"]
          /\ UNCHANGED <<buffer, views>>

\* iter_mut() on a SliceMut
IterMutOp ==
    /\ ~Panicked
    /\ NumIters < MaxIters
    /\ \E v \in Live :
          /\ v.mut
          /\ iter' = Add1(iter, IterOf(v, TRUE, SliceMut_iter_mut(buffer, v)))
          /\ BorrowsFit(views, iter')
          /\ last' = [Called("iter_mut", v) EXCEPT !.outcome = "ok"]
          /\ UNCHANGED <<buffer, views>>

Stepped(op, i, res) ==
    [NoLast EXCEPT !.op = op, !.mut = i.vmut, !.recv = i.range,
                   !.outcome = Outcome(res), !.ref = res.ref]

\* one forward step of an iterator
IterNext ==
    /\ ~Panicked
    /\ \E i \in Iters :
         LET res == Iter_next(buffer, i.it)
         IN /\ iter' = Add1(Remove1(iter, i),
                            [i EXCEPT
                               !.it = res.it,
                               !.front = IF res.tag = "Some"
                                         THEN Append(@, res.ref) ELSE @])
            /\ last' = Stepped("next", i, res)
            /\ UNCHANGED <<buffer, views>>

\* one backward step of an iterator
IterNextBack ==
    /\ ~Panicked
    /\ \E i \in Iters :
         LET res == Iter_next_back(buffer, i.it)
         IN /\ iter' = Add1(Remove1(iter, i),
                            [i EXCEPT
                               !.it = res.it,
                               !.back = IF res.tag = "Some"
                                        THEN Append(@, res.ref) ELSE @])
            /\ last' = Stepped("next_back", i, res)
            /\ UNCHANGED <<buffer, views>>

\* an iterator goes out of scope and its borrow ends
IterDrop ==
    /\ ~Panicked
    /\ \E i \in Iters :
         /\ iter' = Remove1(iter, i)
         /\ last' = [NoLast EXCEPT !.op = "drop_iter", !.outcome = "ok"]
         /\ UNCHANGED <<buffer, views>>

\* split_at and unmut move their view, so they act on views that no
\* iterator borrows.  A panic of split_at ends the iterators with the views.
NextIter ==
    \/ FromMut
    \/ FromShared
    \/ Clone
    \/ (SplitAt /\ MovesUnborrowed)
    \/ (Unmut /\ MovesUnborrowed)
    \/ IterOp
    \/ IterMutOp
    \/ IterNext
    \/ IterNextBack
    \/ IterDrop

\* buffers of every origin, long enough for a split-off view to be walked
\* from both ends
IterBuffers == {MakeBuffer(o, Ramp(n)) : o \in Slots, n \in 0..Min(IterLen, Capacity)}

InitIter ==
    /\ buffer \in IterBuffers
    /\ views = EmptyBag
    /\ last = NoLast
    /\ iter = NoIter

SpecIter == InitIter /\ [][NextIter]_vars

---------------------------------------------------------------------------
(* Claims on the life cycle (Spec) *)

\* the logical indices a range covers
Covered(r) == {i \in 0..Capacity : r.start <= i /\ i < r.end}

RangeLen(r) == r.end - r.start

Holds(m, r) == BagIn([mut |-> m, range |-> r], views)

\* C2: split_at(k) on a view [s, e) succeeds exactly when k <= len(); it then
\* returns [s, s+k) and [s+k, e): disjoint, jointly covering [s, e), with
\* lengths adding up to len(); when k > len() it aborts and returns no view.
C2_SplitAt ==
    last.op = "split_at" =>
        LET s == last.recv.start
            e == last.recv.end
            k == last.a
        IN IF k <= e - s
           THEN /\ last.outcome = "ok"
                /\ last.r1 = Range(s, s + k)
                /\ last.r2 = Range(s + k, e)
                /\ Covered(last.r1) \cap Covered(last.r2) = {}
                /\ Covered(last.r1) \cup Covered(last.r2) = Covered(last.recv)
                /\ RangeLen(last.r1) + RangeLen(last.r2) = e - s
                /\ Holds(last.mut, last.r1)
                /\ Holds(last.mut, last.r2)
           ELSE /\ last.outcome = "panic"
                /\ views = EmptyBag

\* a SliceMut that does not start at 0 was split at a positive index
C2_Witness ==
    /\ last.op = "split_at"
    /\ last.outcome = "ok"
    /\ last.mut
    /\ last.recv.start > 0
    /\ last.a > 0

\* C3: every live view has 0 <= start <= end <= buffer.length, and the
\* SliceMut views alive at the same time cover pairwise disjoint indices.
C3_RangesValidAndDisjoint ==
    /\ \A v \in Live :
          /\ 0 <= v.range.start
          /\ v.range.start <= v.range.end
          /\ v.range.end <= buffer.length
    /\ \A v \in Live : \A w \in Live :
          (v.mut /\ w.mut /\ (v # w \/ CopiesIn(v, views) > 1))
              => Covered(v.range) \cap Covered(w.range) = {}

\* two non-empty SliceMut views are alive at once
C3_Witness ==
    \E v \in Live : \E w \in Live :
        /\ v # w
        /\ v.mut /\ w.mut
        /\ RangeLen(v.range) > 0 /\ RangeLen(w.range) > 0

\* the sub-range as the caller means it, in unbounded integers
IdealStart == IF last.sb = "Unbounded" THEN last.recv.start ELSE last.recv.start + last.a

IdealEnd ==
    CASE last.eb = "Unbounded" -> last.recv.end
      [] last.eb = "Included"  -> last.recv.start + last.b + 1
      [] last.eb = "Excluded"  -> last.recv.start + last.b
      [] OTHER                 -> 0

IdealEscapes ==
    \/ IdealStart < last.recv.start
    \/ IdealEnd > last.recv.end
    \/ IdealStart > IdealEnd

\* C4: a sub-range whose translated range escapes the parent's bounds or is
\* inverted makes slice abort and return no view, for every index value up
\* to the word maximum; it is never clamped or wrapped into a valid range.
C4_SliceRejects ==
    (last.op = "slice" /\ IdealEscapes) =>
        (last.outcome = "panic" /\ views = EmptyBag)

\* C5: for a valid sub-range (0 <= a <= b' <= len(), an unbounded start
\* standing for 0 and an unbounded end for len()) slice returns the view
\* [s+a, s+b') of the same kind, of length b' - a, whose element i is the
\* parent's element a + i.
C5_SliceValid ==
    (last.op = "slice" /\ last.sb # "Excluded" /\ ~IdealEscapes) =>
        LET parent == [mut |-> last.mut, range |-> last.recv]
            child  == [mut |-> last.mut, range |-> last.r1]
            a      == IdealStart - last.recv.start
            b      == IdealEnd - last.recv.start
        IN /\ last.outcome = "ok"
           /\ last.r1 = Range(last.recv.start + a, last.recv.start + b)
           /\ BagIn(child, views)
           /\ Slice_len(child) = b - a
           /\ SliceMut_len(child) = b - a
           /\ \A i \in 0..(b - a - 1) :
                 /\ Slice_get(buffer, child, i).tag = "Some"
                 /\ Slice_get(buffer, child, i) = Slice_get(buffer, parent, a + i)
                 /\ SliceMut_get(buffer, child, i) = SliceMut_get(buffer, parent, a + i)
                 /\ buffer.slots[Slice_get(buffer, child, i).ref]
                      = last.recv.start + a + i + 1

\* a Slice took a non-empty inner sub-range a..=b with a > 0
C5_Witness ==
    /\ last.op = "slice"
    /\ last.outcome = "ok"
    /\ ~last.mut
    /\ last.sb = "Included" /\ last.a > 0
    /\ last.eb = "Included"
    /\ RangeLen(last.r1) > 0

---------------------------------------------------------------------------
(* Claims on element access (SpecAccess, SpecSet) *)

\* the physical slots of the view's own range
OwnSlots(r) == {raw(buffer, j) : j \in Covered(r)}

\* C1: every element access through a view reaches only indices inside the
\* view's own range, so a mutable access through one SliceMut never reaches a
\* slot of another live SliceMut that split_at made, whatever the index.
C1_AccessInRange ==
    /\ last.ref # -1 => last.ref \in OwnSlots(last.recv)
    /\ (last.ref # -1 /\ last.op \in {"index_mut", "get_mut", "first_mut", "last_mut"})
          => \A w \in Live :
                (w.mut /\ w.range # last.recv) => last.ref \notin OwnSlots(w.range)

\* C6: get(i) / get_mut(i) is absent exactly when i >= len() and otherwise is
\* the element at buffer index s + i; first() is the element at s, last() the
\* element at e - 1, and both are absent on an empty view.
C6_Get ==
    LET s   == last.recv.start
        len == RangeLen(last.recv)
        \* the reference to logical index j; that slot holds j + 1
        At(j) == /\ last.outcome = "ok"
                 /\ last.ref = raw(buffer, j)
                 /\ buffer.slots[last.ref] = j + 1
        Absent == last.outcome = "none" /\ last.ref = -1
    IN /\ last.op \in {"get", "get_mut"} =>
            IF last.a >= len THEN Absent ELSE At(s + last.a)
       /\ last.op \in {"first", "first_mut"} =>
            IF len = 0 THEN Absent ELSE At(s)
       /\ last.op \in {"last", "last_mut"} =>
            IF len = 0 THEN Absent ELSE At(last.recv.end - 1)

\* get(len()) on a view that ends inside the buffer: absent although the
\* buffer holds an element there
C6_Witness ==
    /\ last.op = "get"
    /\ last.a = RangeLen(last.recv)
    /\ last.recv.end < buffer.length
    /\ last.outcome = "none"

\* C7: set(i, v) with i < len() stores v at buffer index s + i and returns the
\* value that was there; the length, the origin, the views and every other
\* slot stay as they were.  With i >= len() it aborts, the buffer unchanged.
C7_Set ==
    [][last'.op = "set" =>
        LET s    == last'.recv.start
            i    == last'.a
            slot == raw(buffer, s + i)
        IN IF i < RangeLen(last'.recv)
           THEN /\ last'.outcome = "ok"
                /\ last'.old = buffer.slots[slot]
                /\ buffer'.slots = [buffer.slots EXCEPT ![slot] = last'.value]
                /\ buffer'.length = buffer.length
                /\ buffer'.origin = buffer.origin
                /\ views' = views
           ELSE /\ last'.outcome = "panic"
                /\ buffer' = buffer]_vars

\* a set through the right half of a split replaced a different value
C7_Witness ==
    /\ last.op = "set"
    /\ last.outcome = "ok"
    /\ last.recv.start > 0
    /\ last.old # last.value

---------------------------------------------------------------------------
(* Claims on binary search (SpecSearch) *)

\* the elements of the view the last operation was called on, in order
RecvElems ==
    [i \in 1..RangeLen(last.recv) |-> buffer.slots[raw(buffer, last.recv.start + i - 1)]]

Searched == last.op = "binary_search"

\* C8: on a view in non-decreasing order, Ok(i) means element i equals the
\* target; Err(p) means no element equals it, 0 <= p <= len(), every element
\* before p is less and every element from p on is greater; an empty view
\* answers Err(0); Slice and SliceMut answer alike.
C8_BinarySearch ==
    (Searched /\ IsSorted(RecvElems)) =>
        LET len    == RangeLen(last.recv)
            target == last.value
            p      == last.at
            shared == Slice_binary_search(buffer, MkSlice(last.recv), target)
            excl   == SliceMut_binary_search(buffer, MkSliceMut(last.recv), target)
        IN /\ last.outcome \in {"ok", "err"}
           /\ last.outcome = "ok" =>
                 /\ 0 <= p /\ p < len
                 /\ RecvElems[p + 1] = target
           /\ last.outcome = "err" =>
                 /\ 0 <= p /\ p <= len
                 /\ \A i \in 1..len : RecvElems[i] # target
                 /\ \A i \in 1..p : RecvElems[i] < target
                 /\ \A i \in (p + 1)..len : RecvElems[i] > target
           /\ len = 0 => (last.outcome = "err" /\ p = 0)
           /\ shared = excl
           /\ shared = [tag |-> IF last.outcome = "ok" THEN "Ok" ELSE "Err", at |-> p]

\* a SliceMut that does not start at 0 answered Err with an inner insertion point
C8_Witness ==
    /\ Searched
    /\ last.mut
    /\ last.recv.start > 0
    /\ last.outcome = "err"
    /\ 0 < last.at /\ last.at < RangeLen(last.recv)

\* C9: when the target occurs more than once in a sorted view the answer is
\* Ok of the highest index holding it; on [1,3,3,5,8] search(3) is Ok(2) and
\* search(4) is Err(3).
C9_TieBreak ==
    (Searched /\ IsSorted(RecvElems)) =>
        /\ last.outcome = "ok" =>
              \A i \in 1..RangeLen(last.recv) :
                  RecvElems[i] = last.value => i - 1 <= last.at
        /\ (RecvElems = <<1, 3, 3, 5, 8>> /\ last.value = 3) =>
              (last.outcome = "ok" /\ last.at = 2)
        /\ (RecvElems = <<1, 3, 3, 5, 8>> /\ last.value = 4) =>
              (last.outcome = "err" /\ last.at = 3)

\* search(3) on a Slice holding [1,3,3,5,8] has answered
C9_Witness ==
    /\ Searched
    /\ ~last.mut
    /\ RecvElems = <<1, 3, 3, 5, 8>>
    /\ last.value = 3
    /\ last.outcome = "ok"

---------------------------------------------------------------------------
(* Claims on equality (SpecEq) *)

\* the elements of the other operand of the last comparison, in order
OtherElems ==
    IF last.other \in {"Slice", "SliceMut"}
    THEN [i \in 1..RangeLen(last.r1) |-> buffer.slots[raw(buffer, last.r1.start + i - 1)]]
    ELSE last.elems

\* C10: a view equals another Slice, a SliceMut, an owned RingBuffer or a
\* builtin sequence exactly when both have the same length and their elements
\* are pairwise equal in logical order, whatever the origins of the buffers
\* and wherever the view's range starts.
C10_Equality ==
    last.op = "eq" =>
        (last.outcome = "true" <=>
            /\ Len(RecvElems) = Len(OtherElems)
            /\ \A i \in 1..Len(RecvElems) : RecvElems[i] = OtherElems[i])

\* a non-empty Slice that does not start at 0 compared equal to an owned buffer
C10_Witness ==
    /\ last.op = "eq"
    /\ ~last.mut
    /\ last.recv.start > 0
    /\ RangeLen(last.recv) > 0
    /\ last.other = "RingBuffer"
    /\ last.outcome = "true"

---------------------------------------------------------------------------
(* Claims on iteration (SpecIter) *)

\* the slots of the buffer that hold an element
LiveSlots == {raw(buffer, j) : j \in 0..(buffer.length - 1)}

\* every slot an iterator has yielded so far, forward steps first
Yielded(i) == i.front \o i.back

\* C11: an iterator over a view [s, e) of a buffer with origin o starts with
\* left_index = o + s, right_index = o + s + len() and remaining = len();
\* after any interleaving of forward and backward steps right_index -
\* left_index = remaining, the cursors have not crossed, the k-th forward
\* step yielded slot (o + s + k - 1) mod capacity and the k-th backward step
\* slot (o + e - k) mod capacity, and the slots yielded are distinct and
\* live; so a full forward run is the reverse of a full backward run.
C11_Iter ==
    \A i \in Iters :
        LET o == buffer.origin
            s == i.range.start
            n == RangeLen(i.range)
            F == Len(i.front)
            B == Len(i.back)
        IN /\ i.it.left_index = o + s + F
           /\ i.it.right_index = o + s + n - B
           /\ i.it.remaining = n - F - B
           /\ i.it.right_index - i.it.left_index = i.it.remaining
           /\ i.it.left_index <= i.it.right_index
           /\ \A k \in 1..F : i.front[k] = (o + s + k - 1) % Capacity
           /\ \A k \in 1..B : i.back[k] = (o + s + n - k) % Capacity
           /\ \A j, k \in 1..(F + B) : j # k => Yielded(i)[j] # Yielded(i)[k]
           /\ \A k \in 1..(F + B) : Yielded(i)[k] \in LiveSlots
           /\ (i.it.remaining = 0 /\ B = 0)
                 => i.front = [k \in 1..n |-> (o + s + k - 1) % Capacity]
           /\ (i.it.remaining = 0 /\ F = 0)
                 => i.back = [k \in 1..n |-> (o + s + n - k) % Capacity]

\* an iterator over a view that starts past the buffer's first element was
\* run out from both ends, over a window that wraps around the storage
C11_Witness ==
    /\ \E i \in Iters :
          /\ i.range.start > 0
          /\ i.it.remaining = 0
          /\ Len(i.front) >= 1
          /\ Len(i.back) >= 1
          /\ \E k \in 1..Len(i.front) : i.front[k] = Capacity - 1
          /\ \E k \in 1..Len(i.back) : i.back[k] = 0
    /\ last.op \in {"next", "next_back"}
    /\ last.outcome = "none"

---------------------------------------------------------------------------
(* Claims on the reads of binary search (SpecSearchBy) *)

\* C12: in binary_search_by, for every view length and every comparator,
\* sorted data or not, every index handed to get_unchecked (each mid in the
\* loop and the final base) is below len(), and size >= 1 and base + size <=
\* len() hold at every loop iteration: the unchecked reads stay in the view.
C12_SearchReads ==
    last.op = "binary_search_by" =>
        LET n == RangeLen(last.recv)
        IN /\ (n = 0) <=> (last.elems = <<>>)
           /\ \A k \in 1..Len(last.elems) :
                 LET rd == last.elems[k]
                 IN /\ rd.index < n
                    /\ rd.size >= 1
                    /\ rd.base + rd.size <= n
                    /\ rd.ref \in OwnSlots(last.recv)
                    /\ rd.place = "loop" => rd.index = rd.base + (rd.size \div 2)
                    /\ rd.place = "end" => rd.index = rd.base

\* a search over a split-off SliceMut of three or more elements whose
\* comparator answered differently on the same element, as no ordering does
C12_Witness ==
    /\ last.op = "binary_search_by"
    /\ last.mut
    /\ last.recv.start > 0
    /\ RangeLen(last.recv) >= 3
    /\ \E k \in 1..(Len(last.elems) - 1) :
          /\ last.elems[k].index = last.elems[k + 1].index
          /\ last.elems[k].cmp = "Greater"
          /\ last.elems[k + 1].cmp = "Less"


===========================================================================
